---- MODULE Spec2Model ----
(***************************************************************************)
(* CRM Contacts API (src/main.py): five FastAPI handlers over one SQLite   *)
(* table `contacts`.  Every handler opens its own sqlite3 connection, so   *)
(* the handlers of concurrent requests interleave statement by statement;  *)
(* the storage engine serialises writers with its RESERVED lock and        *)
(* publishes a writer's changes at commit.                                 *)
(*                                                                         *)
(* Strings are sequences of one-character strings, so that LOWER, LIKE and *)
(* the BINARY collation are computed rather than assumed.                  *)
(*                                                                         *)
(* Outside the model: request validation (the payloads drawn are valid),   *)
(* and the busy timeout of sqlite3.connect (a statement that finds the     *)
(* write lock taken waits for it).                                         *)
(***************************************************************************)
EXTENDS Integers, Sequences, FiniteSets, TLC

\* ------------------------------------------------------------------ bounds
NumThreads == 2    \* worker threads handling requests concurrently
MaxId      == 2    \* ids 1..MaxId: path parameters, and rows ever inserted
MaxClock   == 1    \* CURRENT_TIMESTAMP values 0..MaxClock
MaxLimit   == 2    \* list: limit drawn from 1..MaxLimit (the code allows 1..50)
MaxOffset  == 1    \* list: offset drawn from 0..MaxOffset

Threads == 1..NumThreads
Ids     == 1..MaxId            \* path parameter id (gt=0)

NULL     == <<"NULL">>     \* SQL NULL / Python None, distinct from every string

\* ------------------------------------------------------------------ values
\* Two emails that differ only in case: the UNIQUE index compares bytewise,
\* LIKE and LOWER do not.
EmailA == <<"a">>
EmailB == <<"A">>

\* Valid request bodies: two with the same email and different name, phone
\* and company, one with the other email.
Payloads ==
  { [name |-> <<"A", "b">>, email |-> EmailA, phone |-> NULL,    company |-> NULL],
    [name |-> <<"b">>,      email |-> EmailA, phone |-> <<"5">>, company |-> <<"C", "o">>],
    [name |-> <<"A", "b">>, email |-> EmailB, phone |-> <<"5">>, company |-> <<"c", "O">>] }

\* Query parameters of the list: absent, empty, and values that meet the
\* rows in another case or with a LIKE wildcard.
CompanyParams == {NULL, <<>>, <<"c", "o">>}
SearchParams  == {NULL, <<"B">>, <<"_", "b">>}
SortKeys      == {"id", "name", "company"}
Orders        == {"asc", "desc"}

\* ------------------------------------------------------------------ SQL text functions
\* SQLite LOWER() on one ASCII character.
LowerChar(c) ==
  CASE c = "A" -> "a" [] c = "B" -> "b" [] c = "C" -> "c" [] c = "O" -> "o"
    [] OTHER -> c

\* SQLite LOWER(): NULL stays NULL.
LOWER(s) == IF s = NULL THEN NULL ELSE [i \in DOMAIN s |-> LowerChar(s[i])]

\* SQLite LIKE: % matches any run of characters, _ any one character, any
\* other character matches itself without regard to ASCII case.
RECURSIVE LikeMatch(_, _)
LikeMatch(p, s) ==
  IF p = <<>> THEN s = <<>>
  ELSE IF Head(p) = "%"
       THEN LikeMatch(Tail(p), s) \/ (s # <<>> /\ LikeMatch(p, Tail(s)))
       ELSE /\ s # <<>>
            /\ (Head(p) = "_" \/ LowerChar(Head(p)) = LowerChar(Head(s)))
            /\ LikeMatch(Tail(p), Tail(s))

LIKE(s, p) == s # NULL /\ p # NULL /\ LikeMatch(p, s)

\* ASCII code of a character (BINARY collation).
CharCode(c) ==
  CASE c = "%" -> 37 [] c = "5" -> 53 [] c = "A" -> 65 [] c = "B" -> 66
    [] c = "C" -> 67 [] c = "O" -> 79 [] c = "_" -> 95 [] c = "a" -> 97
    [] c = "b" -> 98 [] c = "c" -> 99 [] c = "o" -> 111

RECURSIVE TextLess(_, _)
TextLess(s, u) ==
  IF u = <<>> THEN FALSE
  ELSE IF s = <<>> THEN TRUE
  ELSE IF Head(s) # Head(u) THEN CharCode(Head(s)) < CharCode(Head(u))
  ELSE TextLess(Tail(s), Tail(u))

\* ORDER BY on a text column: NULL sorts before every value, text bytewise.
TextLessEq(x, y) ==
  IF x = NULL THEN TRUE
  ELSE IF y = NULL THEN FALSE
  ELSE x = y \/ TextLess(x, y)


\* ------------------------------------------------------------------ state
VARIABLES
  contacts,   \* committed rows of table contacts
  seq,        \* committed sqlite_sequence value of the AUTOINCREMENT key
  writer,     \* the threads whose connection holds the write lock: none or one
  txn,        \* the writer's uncommitted [contacts, seq]
  pc,         \* per thread: position in its handler
  req,        \* per thread: the request being handled
  loc,        \* per thread: the handler's local variables
  resp,       \* per thread: the response produced
  unclosed,   \* some connection of a handler that has ended is still open
  issued,     \* history: ids assigned by the committed INSERTs so far
  deleted     \* history: ids whose DELETE request returned 204

vars == <<contacts, seq, writer, txn, pc, req, loc, resp, unclosed, issued, deleted>>

NoRow == [id |-> 0, name |-> NULL, email |-> NULL, phone |-> NULL,
          company |-> NULL, created_at |-> 0]
NoPayload == [name |-> NULL, email |-> NULL, phone |-> NULL, company |-> NULL]
NoTxn == [contacts |-> {}, seq |-> 0]
NoReq == [op |-> "none", id |-> 0, contact |-> NoPayload, company |-> NULL,
          search |-> NULL, limit |-> 0, offset |-> 0, sort_by |-> "id",
          order |-> "asc"]
NoLoc == [existing |-> NoRow, new_id |-> 0, total |-> 0]
NoResp == [status |-> 0, body |-> NoRow, data |-> <<>>, count |-> 0]

\* CREATE TABLE IF NOT EXISTS contacts: an empty table, no sequence entry.
init_db ==
  /\ contacts = {}
  /\ seq = 0

Init ==
  /\ init_db
  /\ writer = {}
  /\ txn = NoTxn
  /\ pc = [t \in Threads |-> "idle"]
  /\ req = [t \in Threads |-> NoReq]
  /\ loc = [t \in Threads |-> NoLoc]
  /\ resp = [t \in Threads |-> NoResp]
  /\ unclosed = FALSE
  /\ issued = {}
  /\ deleted = {}

\* ------------------------------------------------------------------ storage
\* SELECT * FROM contacts WHERE id = ? ... fetchone(): the row, or None.
SelectById(id) ==
  IF \E r \in contacts : r.id = id
  THEN CHOOSE r \in contacts : r.id = id
  ELSE NoRow

\* SELECT 1 FROM contacts WHERE email = ? ... fetchone() is not None.
SelectByEmail_Skipped(email) == FALSE
SelectByEmail(email) == \E r \in contacts : r.email = email

\* email TEXT UNIQUE NOT NULL, as an INSERT meets it.
InsertViolatesUnique_Dropped(contact) == FALSE
InsertViolatesUnique(contact) == \E r \in contacts : r.email = contact.email

\* AUTOINCREMENT: one more than the largest rowid the table ever held.
MaxRowId == IF contacts = {} THEN 0
            ELSE CHOOSE m \in {r.id : r \in contacts} : \A r \in contacts : r.id <= m
NextRowId_MaxPlusOne == MaxRowId + 1
NextRowId == (IF seq > MaxRowId THEN seq ELSE MaxRowId) + 1

\* DEFAULT CURRENT_TIMESTAMP: time does not run backwards, so a new row is
\* stamped no earlier than the rows of the table.
LastTimestamp ==
  IF contacts = {} THEN 0
  ELSE CHOOSE m \in {r.created_at : r \in contacts} :
         \A r \in contacts : r.created_at <= m
Timestamps == {ts \in {LastTimestamp, LastTimestamp + 1} : ts <= MaxClock}

\* A statement that writes needs the write lock of the database file.
LockFree == writer = {}

\* Contact(...) of a fetched row.
row_to_contact(row) == row

\* A worker thread of the pool takes the next request.
Ready(t) == pc[t] = "idle"

\* The handler ends (return or raise) and the response is produced.  The
\* enclosing `with` has committed or rolled back; it does not close the
\* connection, and no handler calls conn.close().
Respond(t, status, body) ==
  /\ pc' = [pc EXCEPT ![t] = "done"]
  /\ resp' = [resp EXCEPT ![t] = [NoResp EXCEPT !.status = status, !.body = body]]
  /\ unclosed' = TRUE

\* The handler goes on to its next statement.
Goto(t, label) ==
  /\ pc' = [pc EXCEPT ![t] = label]
  /\ UNCHANGED <<resp, unclosed>>

\* conn.commit(): the writer's changes become the table, the lock is released.
Commit(t) ==
  /\ writer = {t}
  /\ contacts' = txn.contacts
  /\ seq' = txn.seq
  /\ writer' = {}
  /\ txn' = NoTxn

\* ------------------------------------------------------------------ GET /contacts/{id}
get_contact(t) ==
  /\ Ready(t)
  /\ \E id \in Ids :
       LET row == SelectById(id) IN
       /\ req' = [req EXCEPT ![t] = [NoReq EXCEPT !.op = "get", !.id = id]]
       /\ IF row = NoRow
          THEN Respond(t, 404, NoRow)
          ELSE Respond(t, 200, row_to_contact(row))
  /\ UNCHANGED <<contacts, seq, writer, txn, loc, issued, deleted>>

\* ------------------------------------------------------------------ POST /contacts
\* The request arrives: sqlite3.connect(DB_PATH).
create_contact_connect(t) ==
  /\ Ready(t)
  /\ \E contact \in Payloads :
       req' = [req EXCEPT ![t] = [NoReq EXCEPT !.op = "create", !.contact = contact]]
  /\ Goto(t, "create_insert")
  /\ UNCHANGED <<contacts, seq, writer, txn, loc, issued, deleted>>

\* INSERT INTO contacts (name, email, phone, company): id and created_at are
\* the column defaults.
InsertedRow(contact, ts) ==
  [id |-> NextRowId, name |-> contact.name, email |-> contact.email,
   phone |-> contact.phone, company |-> contact.company, created_at |-> ts]

\* try: INSERT ... except sqlite3.IntegrityError: raise HTTPException(409).
\* Any other exception leaves the handler uncaught: 500.
create_contact_except_Missing(exc) == 500
create_contact_except(exc) == IF exc = "IntegrityError" THEN 409 ELSE 500

\* conn.execute(INSERT ...): waits for the write lock; the UNIQUE constraint
\* on email raises IntegrityError, mapped to 409 (the `with` rolls back).
create_contact_insert(t) ==
  /\ pc[t] = "create_insert"
  /\ LockFree
  /\ NextRowId <= MaxId
  /\ IF InsertViolatesUnique(req[t].contact)
     THEN /\ Respond(t, create_contact_except("IntegrityError"), NoRow)
          /\ UNCHANGED <<writer, txn, loc>>
     ELSE \E ts \in Timestamps :
          /\ txn' = [contacts |-> contacts \cup {InsertedRow(req[t].contact, ts)},
                     seq |-> NextRowId]
          /\ writer' = {t}
          /\ loc' = [loc EXCEPT ![t] = [NoLoc EXCEPT !.new_id = NextRowId]]
          /\ Goto(t, "create_commit")
  /\ UNCHANGED <<contacts, seq, req, issued, deleted>>

\* conn.commit(); new_id = cursor.lastrowid
create_contact_commit(t) ==
  /\ pc[t] = "create_commit"
  /\ Commit(t)
  /\ issued' = issued \cup {loc[t].new_id}
  /\ Goto(t, "create_select")
  /\ UNCHANGED <<req, loc, deleted>>

\* row = SELECT * WHERE id = new_id; return row_to_contact(row).  Without a
\* row, row_to_contact(None) raises and the request ends in 500.
create_contact_select(t) ==
  /\ pc[t] = "create_select"
  /\ LET row == SelectById(loc[t].new_id) IN
       IF row = NoRow
       THEN Respond(t, 500, NoRow)
       ELSE Respond(t, 201, row_to_contact(row))
  /\ UNCHANGED <<contacts, seq, writer, txn, req, loc, issued, deleted>>

create_contact(t) ==
  \/ create_contact_connect(t)
  \/ create_contact_insert(t)
  \/ create_contact_commit(t)
  \/ create_contact_select(t)

\* ------------------------------------------------------------------ PUT /contacts/{id}
\* existing = SELECT * WHERE id = ?; 404 when there is none.
update_contact_existing(t) ==
  /\ Ready(t)
  /\ \E id \in Ids, contact \in Payloads :
       LET existing == SelectById(id) IN
       /\ req' = [req EXCEPT ![t] = [NoReq EXCEPT !.op = "update", !.id = id,
                                                  !.contact = contact]]
       /\ IF existing = NoRow
          THEN /\ Respond(t, 404, NoRow)
               /\ UNCHANGED loc
          ELSE /\ Goto(t, IF contact.email # existing.email
                          THEN "update_dup" ELSE "update_update")
               /\ loc' = [loc EXCEPT ![t] = [NoLoc EXCEPT !.existing = existing]]
  /\ UNCHANGED <<contacts, seq, writer, txn, issued, deleted>>

\* if contact.email != existing[2]: dup = SELECT 1 WHERE email = ?; 409 on a hit.
update_contact_dup(t) ==
  /\ pc[t] = "update_dup"
  /\ IF SelectByEmail(req[t].contact.email)
     THEN Respond(t, 409, NoRow)
     ELSE Goto(t, "update_update")
  /\ UNCHANGED <<contacts, seq, writer, txn, req, loc, issued, deleted>>

\* The rows after UPDATE contacts SET name, email, phone, company WHERE id.
UpdatedRows_KeepsCompany(id, contact) ==
  { IF r.id = id
    THEN [r EXCEPT !.name = contact.name, !.email = contact.email,
                   !.phone = contact.phone]
    ELSE r : r \in contacts }
UpdatedRows(id, contact) ==
  { IF r.id = id
    THEN [r EXCEPT !.name = contact.name, !.email = contact.email,
                   !.phone = contact.phone, !.company = contact.company]
    ELSE r : r \in contacts }

\* The UNIQUE constraint on email as the UPDATE statement meets it.
UpdateViolatesUnique(id, contact) ==
  /\ \E r \in contacts : r.id = id
  /\ \E r \in contacts : r.id # id /\ r.email = contact.email

\* conn.execute(UPDATE ...): waits for the write lock; an IntegrityError is
\* not caught by the handler: the `with` rolls back, the request ends in 500.
update_contact_update(t) ==
  /\ pc[t] = "update_update"
  /\ LockFree
  /\ IF UpdateViolatesUnique(req[t].id, req[t].contact)
     THEN /\ Respond(t, 500, NoRow)
          /\ UNCHANGED <<writer, txn>>
     ELSE /\ txn' = [contacts |-> UpdatedRows(req[t].id, req[t].contact), seq |-> seq]
          /\ writer' = {t}
          /\ Goto(t, "update_commit")
  /\ UNCHANGED <<contacts, seq, req, loc, issued, deleted>>

\* conn.commit()
update_contact_commit(t) ==
  /\ pc[t] = "update_commit"
  /\ Commit(t)
  /\ Goto(t, "update_select")
  /\ UNCHANGED <<req, loc, issued, deleted>>

\* row = SELECT * WHERE id = ?; return row_to_contact(row).  Without a row,
\* row_to_contact(None) raises and the request ends in 500.
update_contact_select(t) ==
  /\ pc[t] = "update_select"
  /\ LET row == SelectById(req[t].id) IN
       IF row = NoRow
       THEN Respond(t, 500, NoRow)
       ELSE Respond(t, 200, row_to_contact(row))
  /\ UNCHANGED <<contacts, seq, writer, txn, req, loc, issued, deleted>>

update_contact(t) ==
  \/ update_contact_existing(t)
  \/ update_contact_dup(t)
  \/ update_contact_update(t)
  \/ update_contact_commit(t)
  \/ update_contact_select(t)

\* ------------------------------------------------------------------ DELETE /contacts/{id}
\* exists = SELECT 1 WHERE id = ?; 404 when there is none.
delete_contact_exists(t) ==
  /\ Ready(t)
  /\ \E id \in Ids :
       /\ req' = [req EXCEPT ![t] = [NoReq EXCEPT !.op = "delete", !.id = id]]
       /\ IF SelectById(id) = NoRow
          THEN Respond(t, 404, NoRow)
          ELSE Goto(t, "delete_delete")
  /\ UNCHANGED <<contacts, seq, writer, txn, loc, issued, deleted>>

\* conn.execute(DELETE FROM contacts WHERE id = ?): waits for the write lock.
delete_contact_delete(t) ==
  /\ pc[t] = "delete_delete"
  /\ LockFree
  /\ txn' = [contacts |-> {r \in contacts : r.id # req[t].id}, seq |-> seq]
  /\ writer' = {t}
  /\ Goto(t, "delete_commit")
  /\ UNCHANGED <<contacts, seq, req, loc, issued, deleted>>

\* conn.commit(); return None
delete_contact_commit(t) ==
  /\ pc[t] = "delete_commit"
  /\ Commit(t)
  /\ Respond(t, 204, NoRow)
  /\ deleted' = deleted \cup {req[t].id}
  /\ UNCHANGED <<req, loc, issued>>

delete_contact(t) ==
  \/ delete_contact_exists(t)
  \/ delete_contact_delete(t)
  \/ delete_contact_commit(t)

\* ------------------------------------------------------------------ GET /contacts
\* `if company:` / `if search:`: None and the empty string add no predicate.
Truthy(x) == x # NULL /\ x # <<>>

\* wildcard = f"%{search}%"
Wildcard(search) == <<"%">> \o search \o <<"%">>

\* WHERE 1=1 [AND LOWER(company) = LOWER(?)]
\*           [AND (LOWER(name) LIKE LOWER(?) OR LOWER(email) LIKE LOWER(?))]
Matches(r, company, search) ==
  /\ Truthy(company) =>
       r.company # NULL /\ LOWER(r.company) = LOWER(company)
  /\ Truthy(search) =>
       \/ LIKE(LOWER(r.name), LOWER(Wildcard(search)))
       \/ LIKE(LOWER(r.email), LOWER(Wildcard(search)))

Matching(company, search) == {r \in contacts : Matches(r, company, search)}

\* SELECT COUNT(*) FROM (query)
CountMatching_Unfiltered(company, search) == Cardinality(contacts)
CountMatching(company, search) == Cardinality(Matching(company, search))

\* ORDER BY {sort_by} ASC on two rows.
KeyLessEq(sort_by, a, b) ==
  CASE sort_by = "id"      -> a.id <= b.id
    [] sort_by = "name"    -> TextLessEq(a.name, b.name)
    [] sort_by = "company" -> TextLessEq(a.company, b.company)

\* The orders in which the storage engine may return the matching rows under
\* ORDER BY {sort_by} {order}: rows with equal keys come in any order.
Ordered(rows, sort_by, order) ==
  LET n == Cardinality(rows) IN
  { s \in [1..n -> rows] :
      /\ \A i, j \in 1..n : i # j => s[i] # s[j]
      /\ \A i, j \in 1..n : i < j =>
           IF order = "asc" THEN KeyLessEq(sort_by, s[i], s[j])
                            ELSE KeyLessEq(sort_by, s[j], s[i]) }

\* LIMIT ? OFFSET ?
Window(s, limit, offset) ==
  SubSeq(s, offset + 1, IF offset + limit < Len(s) THEN offset + limit ELSE Len(s))

\* First connection: total = SELECT COUNT(*) FROM (query)
get_contacts_count(t) ==
  /\ Ready(t)
  /\ \E company \in CompanyParams, search \in SearchParams,
        limit \in 1..MaxLimit, offset \in 0..MaxOffset,
        sort_by \in SortKeys, order \in Orders :
       /\ req' = [req EXCEPT ![t] = [NoReq EXCEPT !.op = "list", !.company = company,
                    !.search = search, !.limit = limit, !.offset = offset,
                    !.sort_by = sort_by, !.order = order]]
       /\ loc' = [loc EXCEPT ![t] = [NoLoc EXCEPT !.total =
                    CountMatching(company, search)]]
  /\ Goto(t, "list_fetch")
  /\ UNCHANGED <<contacts, seq, writer, txn, issued, deleted>>

\* Second connection: rows = query ORDER BY ... LIMIT ? OFFSET ?; the
\* response carries the total of the first query.
get_contacts_fetch(t) ==
  /\ pc[t] = "list_fetch"
  /\ \E s \in Ordered(Matching(req[t].company, req[t].search),
                      req[t].sort_by, req[t].order) :
       resp' = [resp EXCEPT ![t] =
                  [NoResp EXCEPT !.status = 200,
                     !.data = Window(s, req[t].limit, req[t].offset),
                     !.count = loc[t].total]]
  /\ pc' = [pc EXCEPT ![t] = "done"]
  /\ unclosed' = TRUE
  /\ UNCHANGED <<contacts, seq, writer, txn, req, loc, issued, deleted>>

get_contacts(t) ==
  \/ get_contacts_count(t)
  \/ get_contacts_fetch(t)

\* ------------------------------------------------------------------ connections
\* A connection is closed only when the interpreter finalizes the
\* unreferenced Connection object, at a time of its choosing.
Finalize ==
  /\ unclosed
  /\ unclosed' = FALSE
  /\ UNCHANGED <<contacts, seq, writer, txn, pc, req, loc, resp, issued, deleted>>

\* ------------------------------------------------------------------ specifications
\* The response has been sent; the worker thread goes back to the pool.
Return(t) ==
  /\ pc[t] = "done"
  /\ pc' = [pc EXCEPT ![t] = "idle"]
  /\ req' = [req EXCEPT ![t] = NoReq]
  /\ loc' = [loc EXCEPT ![t] = NoLoc]
  /\ resp' = [resp EXCEPT ![t] = NoResp]
  /\ UNCHANGED <<contacts, seq, writer, txn, unclosed, issued, deleted>>

\* Requests handled concurrently by the worker threads.  get_contacts only
\* reads and takes no lock; it is exercised in SeqSpec.
Next ==
  \/ \E t \in Threads :
       \/ get_contact(t)
       \/ create_contact(t)
       \/ update_contact(t)
       \/ delete_contact(t)
       \/ Return(t)
  \/ Finalize

Spec == Init /\ [][Next]_vars

\* Requests handled one after the other.
SeqNext ==
  \/ get_contacts(1)
  \/ get_contact(1)
  \/ create_contact(1)
  \/ update_contact(1)
  \/ delete_contact(1)
  \/ Return(1)
  \/ Finalize

SeqSpec == Init /\ [][SeqNext]_vars


\* ------------------------------------------------------------------ claims
InHandler(t) == pc[t] \notin {"idle", "done"}
Finished(t, op) == pc[t] = "done" /\ req[t].op = op
Responds(t) == pc[t] # "done" /\ pc'[t] = "done"

\* C1: in every reachable state of the table, committed or as the writer
\* sees it, no two distinct rows have the same email.
C1_EmailUnique ==
  \A tab \in {contacts, txn.contacts} :
    \A r1, r2 \in tab : r1 # r2 => r1.email # r2.email

\* A full table (both emails taken) after a request was refused for its email.
C1_Witness ==
  /\ Cardinality(contacts) = 2
  /\ \E t \in Threads : pc[t] = "done" /\ resp[t].status \in {409, 500}
                        /\ req[t].op \in {"create", "update"}

\* C2: the id a create commits is strictly greater than every id committed
\* by an earlier create, and it is the id the create returns with 201; so no
\* id is assigned twice, also after the highest id was deleted.
C2_IdsIncrease ==
  [][\A t \in Threads :
       /\ (pc[t] = "create_commit" /\ pc'[t] = "create_select")
            => \A i \in issued : loc[t].new_id > i
       /\ (Responds(t) /\ req[t].op = "create" /\ resp'[t].status = 201)
            => resp'[t].body.id = loc[t].new_id /\ loc[t].new_id \in issued
    ]_vars

\* A create has inserted with id 2 into a table left empty by the delete of
\* the highest id, 1.
C2_Witness ==
  \E t \in Threads :
    /\ pc[t] = "create_commit"
    /\ loc[t].new_id = 2
    /\ contacts = {}
    /\ 1 \in deleted

\* C3: of two creates in flight with the same email, the INSERT of one never
\* runs while the other's is uncommitted; the one whose INSERT meets the
\* other's committed row gets 409 and inserts nothing; the one whose INSERT
\* meets no row of that email inserts exactly one row.
C3_CreateRace ==
  [][\A t, u \in Threads :
       ( /\ t # u
         /\ req[t].op = "create" /\ req[u].op = "create"
         /\ req[t].contact.email = req[u].contact.email
         /\ pc[t] \in {"create_insert", "create_commit", "create_select"}
         /\ pc[u] = "create_insert" /\ pc'[u] # "create_insert" )
       => /\ pc[t] # "create_commit"
          /\ IF SelectByEmail(req[u].contact.email)
             THEN /\ pc'[u] = "done" /\ resp'[u].status = 409
                  /\ contacts' = contacts /\ txn' = txn
             ELSE /\ pc'[u] = "create_commit"
                  /\ \E r \in txn'.contacts :
                       /\ r \notin contacts
                       /\ r.email = req[u].contact.email
                       /\ txn'.contacts = contacts \cup {r}
    ]_vars

\* One create is still in its handler with its row committed, the other has
\* already been refused with 409.
C3_Witness ==
  \E t, u \in Threads :
    /\ t # u
    /\ pc[t] = "create_select" /\ req[t].op = "create"
    /\ Finished(u, "create") /\ resp[u].status = 409
    /\ req[t].contact.email = req[u].contact.email
    /\ SelectById(loc[t].new_id).email = req[t].contact.email

\* C4 (requests one after the other): an update of an existing contact to an
\* email that differs from its own and is held by another contact answers 409
\* and leaves the contact's row as it was.
C4_UpdateConflict ==
  \A t \in Threads :
    ( /\ Finished(t, "update")
      /\ loc[t].existing # NoRow
      /\ req[t].contact.email # loc[t].existing.email
      /\ \E r \in contacts : r.id # req[t].id /\ r.email = req[t].contact.email )
    => /\ resp[t].status = 409
       /\ SelectById(req[t].id) = loc[t].existing

C4_Witness ==
  \E t \in Threads :
    /\ Finished(t, "update")
    /\ resp[t].status = 409
    /\ loc[t].existing # NoRow
    /\ \E r \in contacts : r.id # req[t].id /\ r.email = req[t].contact.email

\* C5 (requests one after the other): an update of an existing contact that
\* keeps its email answers 200, never 409; the row then has the payload's
\* name, phone and company and the id and created_at it had.
C5_UpdateOwnEmail ==
  \A t \in Threads :
    ( /\ Finished(t, "update")
      /\ loc[t].existing # NoRow
      /\ req[t].contact.email = loc[t].existing.email )
    => LET row == SelectById(req[t].id) IN
       /\ resp[t].status = 200
       /\ resp[t].body = row
       /\ row.name = req[t].contact.name
       /\ row.phone = req[t].contact.phone
       /\ row.company = req[t].contact.company
       /\ row.email = loc[t].existing.email
       /\ row.id = loc[t].existing.id
       /\ row.created_at = loc[t].existing.created_at

\* The update kept the email and changed name, phone and company, while the
\* other email is held by another contact.
C5_Witness ==
  \E t \in Threads :
    /\ Finished(t, "update")
    /\ resp[t].status = 200
    /\ req[t].contact.email = loc[t].existing.email
    /\ req[t].contact.name # loc[t].existing.name
    /\ req[t].contact.phone # loc[t].existing.phone
    /\ req[t].contact.company # loc[t].existing.company
    /\ Cardinality(contacts) = 2

\* C6 (requests one after the other): a delete of an id without a row
\* answers 404 and leaves the table as it was; a get, update or delete of an
\* id whose delete has returned 204 answers 404.
C6_DeletedStaysGone ==
  [][\A t \in Threads :
       /\ ( /\ pc[t] = "idle" /\ req'[t].op = "delete"
            /\ SelectById(req'[t].id) = NoRow )
          => /\ pc'[t] = "done" /\ resp'[t].status = 404
             /\ contacts' = contacts /\ seq' = seq
       /\ ( /\ Responds(t)
            /\ req'[t].op \in {"get", "update", "delete"}
            /\ req'[t].id \in deleted )
          => resp'[t].status = 404
    ]_vars

\* Id 1 was deleted, a create then took id 2, and a later request for id 1
\* was answered 404.
C6_Witness ==
  \E t \in Threads :
    /\ pc[t] = "done"
    /\ req[t].op \in {"get", "update", "delete"}
    /\ req[t].id = 1
    /\ 1 \in deleted
    /\ resp[t].status = 404
    /\ \E r \in contacts : r.id = 2

C8_ConnectionsReleased ==
  \A t \in Threads : pc[t] = "done" => ~unclosed

\* C9: an update whose UPDATE statement reaches storage while another
\* contact holds its new email answers 409 and writes nothing.
C9_UpdateRaceConflict ==
  [][\A t \in Threads :
       ( /\ pc[t] = "update_update" /\ pc'[t] # "update_update"
         /\ UpdateViolatesUnique(req[t].id, req[t].contact) )
       => /\ resp'[t].status = 409
          /\ contacts' = contacts
    ]_vars

\* C10: no two delete requests for the same id both return 204.
C10_OneDeleteSucceeds ==
  \A t, u \in Threads :
    ( /\ t # u
      /\ Finished(t, "delete") /\ Finished(u, "delete")
      /\ req[t].id = req[u].id )
    => ~(resp[t].status = 204 /\ resp[u].status = 204)

====
